---------------------------- MODULE Spec2Model ----------------------------
(***************************************************************************)
(* Model of analysis_utils.py: the census variable catalog, the cached     *)
(* fetchers (_get_frame_for_all_county_vars, get_frame_for_state_vars,     *)
(* get_frame_for_tribal_areas), the frame normalisation done by            *)
(* get_frame_for_county_vars and the two other fetchers, the indicator     *)
(* derivation (get_percentages, get_poverty_level_data,                    *)
(* get_county_census_data) and the reports (format_percentage_frame,       *)
(* get_wic_coverage_frame, get_styled_census_data,                         *)
(* get_styled_tribal_data).                                                *)
(*                                                                         *)
(* A table (pandas DataFrame) is a record                                  *)
(*   [index   |-> sequence of index level names (<<"geo">> for the raw     *)
(*                censusgeo index of a download),                          *)
(*    columns |-> sequence of column names,                                *)
(*    rows    |-> sequence of [key |-> index entry, vals |-> cells]]       *)
(* where vals is aligned with columns.                                     *)
(***************************************************************************)
EXTENDS Integers, Sequences, FiniteSets, TLC

VARIABLES
  census,     \* what the external service holds (ACS5 2019) and how it orders rows
  sortTies,   \* what the build's unstable sorts do with equal keys
  cache,      \* the pandas_cache store: cache key -> table, or NoTable
  first,      \* history: cache key -> first table a successful call returned
  downloads,  \* history: download request -> number of successful downloads
  failures,   \* history: number of downloads that failed
  calls,      \* number of top-level calls made so far
  ret,        \* outcome of the last top-level call
  displayed   \* what display(...) has shown so far, in order

vars == <<census, sortTies, cache, first, downloads, failures, calls, ret, displayed>>

----------------------------------------------------------------------------
(* Bounds *)

\* top-level calls made in one run of the process
MaxCalls == 3

\* the service's cell values are built from a per-geography base in 0..MaxBase
MaxBase == 2

\* a session of indicator and report calls is up to MaxSession calls long
MaxSession == 2

\* the counts of a frame handed to a derivation by a caller are in 0..MaxCell
MaxCell == 2

----------------------------------------------------------------------------
(* Variable Catalog *)

\* class LanguageVars(Nameable, enum.Enum): members in declaration order;
\* name is the variable code, value the human-readable label.
LanguageVars ==
  << [name |-> "C16001_001E", value |-> "total speakers"],
     [name |-> "C16001_005E", value |-> "spanish speakers"],
     [name |-> "C16001_020E", value |-> "korean speakers"],
     [name |-> "C16001_026E", value |-> "vietnamese speakers"],
     [name |-> "C16001_035E", value |-> "arabic speakers"],
     [name |-> "C16001_023E", value |-> "chinese (incl. mandarin, cantonese) speakers"],
     [name |-> "C16001_008E", value |-> "french, haitian, or cajun speakers"],
     [name |-> "C16001_011E", value |-> "german or other west germanic languages speakers"],
     [name |-> "C16001_014E", value |-> "russian, polish, or other slavic languages speakers"],
     [name |-> "C16001_017E", value |-> "other indo-european languages speakers"],
     [name |-> "C16001_029E", value |-> "tagalog (incl. filipino) speakers"],
     [name |-> "C16001_032E", value |-> "other asian and pacific island languages speakers"],
     [name |-> "C16001_038E", value |-> "other and unspecified languages speakers"] >>

\* class DetailedLanguageVars(Nameable, enum.Enum): members in declaration order;
\* name is the variable code, value the human-readable label.
DetailedLanguageVars ==
  << [name |-> "B16001_001E", value |-> "total speakers"],
     [name |-> "B16001_005E", value |-> "spanish speakers"],
     [name |-> "B16001_008E", value |-> "french (incl. cajun) speakers"],
     [name |-> "B16001_011E", value |-> "haitian speakers"],
     [name |-> "B16001_014E", value |-> "italian speakers"],
     [name |-> "B16001_017E", value |-> "portuguese speakers"],
     [name |-> "B16001_020E", value |-> "german speakers"],
     [name |-> "B16001_023E", value |-> "yiddish, pennsylvania dutch or other west germanic languages speakers"],
     [name |-> "B16001_026E", value |-> "greek speakers"],
     [name |-> "B16001_029E", value |-> "russian speakers"],
     [name |-> "B16001_032E", value |-> "polish speakers"],
     [name |-> "B16001_035E", value |-> "serbo-croatian speakers"],
     [name |-> "B16001_038E", value |-> "ukrainian or other slavic languages speakers"],
     [name |-> "B16001_041E", value |-> "armenian speakers"],
     [name |-> "B16001_044E", value |-> "persian (incl. farsi, dari) speakers"],
     [name |-> "B16001_047E", value |-> "gujarati speakers"],
     [name |-> "B16001_050E", value |-> "hindi speakers"],
     [name |-> "B16001_053E", value |-> "urdu speakers"],
     [name |-> "B16001_056E", value |-> "punjabi speakers"],
     [name |-> "B16001_059E", value |-> "bengali speakers"],
     [name |-> "B16001_062E", value |-> "nepali, marathi, or other indic languages speakers"],
     [name |-> "B16001_065E", value |-> "other indo-european languages speakers"],
     [name |-> "B16001_068E", value |-> "telugu speakers"],
     [name |-> "B16001_071E", value |-> "tamil speakers"],
     [name |-> "B16001_074E", value |-> "malayalam, kannada, or other dravidian languages speakers"],
     [name |-> "B16001_077E", value |-> "chinese (incl. mandarin, cantonese) speakers"],
     [name |-> "B16001_080E", value |-> "japanese speakers"],
     [name |-> "B16001_083E", value |-> "korean speakers"],
     [name |-> "B16001_086E", value |-> "hmong speakers"],
     [name |-> "B16001_089E", value |-> "vietnamese speakers"],
     [name |-> "B16001_092E", value |-> "khmer speakers"],
     [name |-> "B16001_095E", value |-> "thai, lao, or other tai-kadai languages speakers"],
     [name |-> "B16001_098E", value |-> "other languages of asia speakers"],
     [name |-> "B16001_101E", value |-> "tagalog (incl. filipino) speakers"],
     [name |-> "B16001_104E", value |-> "ilocano, samoan, hawaiian, or other austronesian languages speakers"],
     [name |-> "B16001_107E", value |-> "arabic speakers"],
     [name |-> "B16001_110E", value |-> "hebrew speakers"],
     [name |-> "B16001_113E", value |-> "amharic, somali, or other afro-asiatic languages speakers"],
     [name |-> "B16001_116E", value |-> "yoruba, twi, igbo, or other languages of western africa speakers"],
     [name |-> "B16001_119E", value |-> "swahili or other languages of central, eastern, and southern africa speakers"],
     [name |-> "B16001_122E", value |-> "navajo speakers"],
     [name |-> "B16001_125E", value |-> "other native languages of north america speakers"],
     [name |-> "B16001_128E", value |-> "other and unspecified languages speakers"] >>

\* the public assistance group with its two members in the other order
PublicAssistanceVarsTotalLast ==
  << [name |-> "B19058_002E", value |-> "received public assistance"],
     [name |-> "B19058_001E", value |-> "total public assistance population"] >>

\* class PublicAssistanceVars(Nameable, enum.Enum): members in declaration order;
\* name is the variable code, value the human-readable label.
PublicAssistanceVars ==
  << [name |-> "B19058_001E", value |-> "total public assistance population"],
     [name |-> "B19058_002E", value |-> "received public assistance"] >>

\* the poverty group with one label written twice
PovertyLevelVarsRepeatedLabel ==
  << [name |-> "B17026_001E", value |-> "total poverty"],
     [name |-> "B17026_002E", value |-> "under 0.5"],
     [name |-> "B17026_003E", value |-> "0.5 to 0.74"],
     [name |-> "B17026_004E", value |-> "0.75 to 0.99"],
     [name |-> "B17026_005E", value |-> "1.00 to 1.24"],
     [name |-> "B17026_006E", value |-> "1.25 to 1.49"],
     [name |-> "B17026_007E", value |-> "1.50 to 1.74"],
     [name |-> "B17026_008E", value |-> "1.50 to 1.74"] >>

\* class PovertyLevelVars(Nameable, enum.Enum): members in declaration order;
\* name is the variable code, value the human-readable label.
PovertyLevelVars ==
  << [name |-> "B17026_001E", value |-> "total poverty"],
     [name |-> "B17026_002E", value |-> "under 0.5"],
     [name |-> "B17026_003E", value |-> "0.5 to 0.74"],
     [name |-> "B17026_004E", value |-> "0.75 to 0.99"],
     [name |-> "B17026_005E", value |-> "1.00 to 1.24"],
     [name |-> "B17026_006E", value |-> "1.25 to 1.49"],
     [name |-> "B17026_007E", value |-> "1.50 to 1.74"],
     [name |-> "B17026_008E", value |-> "1.75 to 1.84"] >>

\* class TotalPopulationVars(Nameable, enum.Enum): members in declaration order;
\* name is the variable code, value the human-readable label.
TotalPopulationVars ==
  << [name |-> "B01003_001E", value |-> "total population"] >>
GroupNames ==
  {"LanguageVars", "DetailedLanguageVars", "PublicAssistanceVars",
   "PovertyLevelVars", "TotalPopulationVars"}

\* the enum class named g
Group(g) ==
  CASE g = "LanguageVars" -> LanguageVars
    [] g = "DetailedLanguageVars" -> DetailedLanguageVars
    [] g = "PublicAssistanceVars" -> PublicAssistanceVars
    [] g = "PovertyLevelVars" -> PovertyLevelVars
    [] g = "TotalPopulationVars" -> TotalPopulationVars

\* Nameable.names: list(map(attrgetter("name"), cls))
Names(G) == [i \in 1..Len(G) |-> G[i].name]

\* [val.value for val in CensusVars]
Values(G) == [i \in 1..Len(G) |-> G[i].value]

\* every code of the catalog, in catalog order
CatalogCodes ==
  Names(LanguageVars) \o Names(DetailedLanguageVars) \o Names(PublicAssistanceVars)
    \o Names(PovertyLevelVars) \o Names(TotalPopulationVars)

SeqRange(s) == {s[i] : i \in 1..Len(s)}

----------------------------------------------------------------------------
(* The external service: censusdata.download and censusgeo *)

\* censusgeo: params() is the tuple of (level, code) pairs, name the display
\* name.  Codes are modelled by their number ("01" -> 1: fixed-width codes
\* compare as their numbers do) and display names by their alphabetical rank.
Geo(params, name) == [params |-> params, name |-> name]

\* states "01" Alabama and "02" Alaska
StateGeos ==
  { Geo(<< <<"state", 1>> >>, 1),
    Geo(<< <<"state", 2>> >>, 2) }

\* "Autauga County, Alabama", "Baldwin County, Alabama",
\* "Aleutians East Borough, Alaska"
CountyGeos ==
  { Geo(<< <<"state", 1>>, <<"county", 1>> >>, 4),
    Geo(<< <<"state", 1>>, <<"county", 3>> >>, 5),
    Geo(<< <<"state", 2>>, <<"county", 13>> >>, 3) }

\* "Acoma Pueblo and Off-Reservation Trust Land, NM",
\* "Agua Caliente Indian Reservation and Off-Reservation Trust Land, CA"
TribalGeos ==
  { Geo(<< <<"american indian area/alaska native area/hawaiian home land", 10>> >>, 6),
    Geo(<< <<"american indian area/alaska native area/hawaiian home land", 20>> >>, 7) }

Scopes == {"state", "county", "tribal"}

GeosOf(scope) ==
  CASE scope = "state" -> StateGeos
    [] scope = "county" -> CountyGeos
    [] scope = "tribal" -> TribalGeos

AllGeos == StateGeos \cup CountyGeos \cup TribalGeos

\* all orderings of a finite set
Orderings(S) ==
  {s \in [1..Cardinality(S) -> S] : \A i, j \in 1..Cardinality(S) : i # j => s[i] # s[j]}

\* what the service may hold: for each scope the order in which it lists the
\* geographies, and for each geography the base its cells are built from
\* (only the counties' bases vary).  bare is the set of geographies whose
\* descriptor comes back without any (level, code) pair, columns the order of
\* the columns of a response; a service that keeps its contract has none of
\* the former and answers in the requested order.
CensusData ==
  [order : [state : Orderings(StateGeos), county : Orderings(CountyGeos),
            tribal : Orderings(TribalGeos)],
   base : {b \in [AllGeos -> 0..MaxBase] :
             \A g \in AllGeos \ CountyGeos : b[g] = g.name % (MaxBase + 1)},
   bare : {{}},
   columns : {"requested"}]

ColumnOrders == {"requested", "reversed"}

Reversed(s) == [i \in 1..Len(s) |-> s[Len(s) + 1 - i]]

\* the descriptor the service sends for geography g
Descriptor(g) == IF g \in census.bare THEN Geo(<<>>, g.name) ELSE g

\* the columns of a response to a request for var
ResponseColumns(var) == IF census.columns = "requested" THEN var ELSE Reversed(var)

\* position of each code in the catalog
CodeIndexes ==
  [code \in SeqRange(CatalogCodes) |->
     CHOOSE i \in 1..Len(CatalogCodes) : CatalogCodes[i] = code]

CodeIndex(code) == CodeIndexes[code]

\* the codes that are their group's total: the first member of each enum
TotalCodes == {Group(g)[1].name : g \in GroupNames}

\* the estimate the service holds for variable code in a geography of the given
\* base: counts are distinct for distinct codes of a populated geography, no
\* count of a group exceeds the group's total (nor do the seven poverty
\* buckets together), and a geography of base 0 has count 0 everywhere
CellValue(base, code) ==
  IF code \in TotalCodes THEN base * (1000 + CodeIndex(code)) ELSE base * CodeIndex(code)

NoTable == [index |-> <<>>, columns |-> <<>>, rows |-> <<>>, none |-> TRUE]

Table(index, columns, rows) ==
  [index |-> index, columns |-> columns, rows |-> rows, none |-> FALSE]

\* censusdata.download("acs5", 2019, censusgeo([(scope, "*")]), var) when it
\* succeeds: one row per geography of the scope, indexed by its censusgeo,
\* one column per requested code, each holding the estimates of its code
Download(scope, var) ==
  Table(<<"geo">>, ResponseColumns(var),
        [r \in 1..Len(census.order[scope]) |->
           [key |-> Descriptor(census.order[scope][r]),
            vals |-> [i \in 1..Len(var) |->
                        CellValue(census.base[census.order[scope][r]],
                                  ResponseColumns(var)[i])]]])

\* a download request and whether it succeeded
Request(scope, var, ok) == [scope |-> scope, var |-> var, ok |-> ok]

----------------------------------------------------------------------------
(* DataFrame operations *)

ColumnPos(t, col) == CHOOSE i \in 1..Len(t.columns) : t.columns[i] = col

HasColumns(t, cols) == SeqRange(cols) \subseteq SeqRange(t.columns)

\* a selection that takes the leading columns instead of the named ones
SelectLeadingColumns(t, cols) ==
  Table(t.index, cols,
        [r \in 1..Len(t.rows) |->
           [key |-> t.rows[r].key,
            vals |-> [i \in 1..Len(cols) |-> t.rows[r].vals[i]]]])

\* a selection that takes the named columns in the order the frame has them
SelectColumnsInFrameOrder(t, cols) ==
  LET kept == SelectSeq(t.columns, LAMBDA col : col \in SeqRange(cols))
  IN Table(t.index, kept,
           [r \in 1..Len(t.rows) |->
              [key |-> t.rows[r].key,
               vals |-> [i \in 1..Len(kept) |-> t.rows[r].vals[ColumnPos(t, kept[i])]]]])

\* frame[[c1, c2, ...]]: the named columns, in the order asked for
\* (KeyError when one is missing: callers test HasColumns first)
SelectColumns(t, cols) ==
  Table(t.index, cols,
        [r \in 1..Len(t.rows) |->
           [key |-> t.rows[r].key,
            vals |-> [i \in 1..Len(cols) |-> t.rows[r].vals[ColumnPos(t, cols[i])]]]])

\* a renaming that assigns the labels from the last column backwards
SetColumnsBackwards(t, labels) ==
  Table(t.index, [i \in 1..Len(labels) |-> labels[Len(labels) + 1 - i]], t.rows)

\* data.columns = labels: the columns are renamed by position
SetColumns(t, labels) == Table(t.index, labels, t.rows)

\* data[col] = cells: a new last column, cells holding one value per row
AddColumn(t, col, cells) ==
  Table(t.index, Append(t.columns, col),
        [r \in 1..Len(t.rows) |->
           [key |-> t.rows[r].key, vals |-> Append(t.rows[r].vals, cells[r])]])

\* data.set_index(cols): the named columns become the index levels and leave
\* the columns; rows keep their order, duplicates are not checked
SetIndex(t, cols) ==
  LET keep == SelectSeq([i \in 1..Len(t.columns) |-> i],
                        LAMBDA i : t.columns[i] \notin SeqRange(cols))
  IN Table(cols, [j \in 1..Len(keep) |-> t.columns[keep[j]]],
           [r \in 1..Len(t.rows) |->
              [key |-> [i \in 1..Len(cols) |-> t.rows[r].vals[ColumnPos(t, cols[i])]],
               vals |-> [j \in 1..Len(keep) |-> t.rows[r].vals[keep[j]]]]])

\* pd.concat([a, b]): the rows of a, then the rows of b (same columns)
Concat(a, b) == Table(a.index, a.columns, a.rows \o b.rows)

TiePolicies == {"stable", "reversed"}

\* whether key a goes before key b, b being later in the input
Before(a, b, ties) == a < b \/ (a = b /\ ties = "stable")

RECURSIVE InsertIdx(_, _, _, _)
InsertIdx(perm, i, keys, ties) ==
  IF perm = <<>> THEN <<i>>
  ELSE IF Before(keys[Head(perm)], keys[i], ties)
       THEN <<Head(perm)>> \o InsertIdx(Tail(perm), i, keys, ties)
       ELSE <<i>> \o perm

RECURSIVE ArgSortUpTo(_, _, _)
ArgSortUpTo(keys, n, ties) ==
  IF n = 0 THEN <<>> ELSE InsertIdx(ArgSortUpTo(keys, n - 1, ties), n, keys, ties)

\* the permutation that puts keys in ascending order; equal keys keep their
\* input order ("stable") or come out in the opposite order ("reversed")
ArgSort(keys, ties) == ArgSortUpTo(keys, Len(keys), ties)

Reorder(t, perm) == Table(t.index, t.columns, [r \in 1..Len(perm) |-> t.rows[perm[r]]])

\* a value sort in ascending order
SortValuesAscending(t, col, ties) ==
  Reorder(t, ArgSort([r \in 1..Len(t.rows) |-> t.rows[r].vals[ColumnPos(t, col)]], ties))

\* .sort_values(col, ascending=False): default kind quicksort, not stable
SortValuesDescending(t, col, ties) ==
  Reorder(t, ArgSort([r \in 1..Len(t.rows) |-> 0 - t.rows[r].vals[ColumnPos(t, col)]], ties))

\* a frame left in the order of the value sort
NotRegrouped(t) == t

\* .sort_index(level=0, sort_remaining=False): rows are regrouped by the first
\* index level only, ascending; the level sort is a stable counting sort
SortIndexLevel0(t) ==
  Reorder(t, ArgSort([r \in 1..Len(t.rows) |-> t.rows[r].key[1]], "stable"))

\* an index sort that is left out
SortIndexSkipped(t, ties) == t

\* .sort_index() on a single-level index: default kind quicksort, not stable
SortIndex(t, ties) ==
  Reorder(t, ArgSort([r \in 1..Len(t.rows) |-> t.rows[r].key[1]], ties))

----------------------------------------------------------------------------
(* Frame normalisation *)

\* the code of the last (level, code) pair: idx.params()[-1][-1]
LastLevelCode(idx) == LET p == idx.params[Len(idx.params)] IN p[Len(p)]

\* lambda idx: idx.params()[0][-1]: the code of the first (level, code) pair
StateFips(idx) == LET p == idx.params[1] IN p[Len(p)]

\* a place name taken from the descriptor's first code instead of its name
PlaceNameFromCode(idx) == idx.params[1][2]

\* lambda idx: idx.name
PlaceName(idx) == idx.name

\* idx.params()[0] raises IndexError for a descriptor without any pair: the
\* rows index.map would raise on
RowsWithoutRegionCode(t) == {r \in 1..Len(t.rows) : t.rows[r].key.params = <<>>}

\* data.index.map(lambda idx: idx.params()[0][-1])
StateFipsOfIndex(t) == [r \in 1..Len(t.rows) |-> StateFips(t.rows[r].key)]

\* data.index.map(lambda idx: idx.name)
PlaceNamesOfIndex(t) == [r \in 1..Len(t.rows) |-> PlaceName(t.rows[r].key)]

\* the two key columns that county and state frames get
WithKeyColumns(t) ==
  LET withFips == AddColumn(t, "state fips", StateFipsOfIndex(t))
  IN AddColumn(withFips, "place name", PlaceNamesOfIndex(withFips))

\* [val.value for val in CensusVars][0]
SortCol(G) == Values(G)[1]

\* get_frame_for_county_vars after the combined frame `all` is fetched and
\* holds every code of G
CountyFrame(all, G, ties) ==
  LET data == SetColumns(SelectColumns(all, Names(G)), Values(G))
      keyed == WithKeyColumns(data)
  IN SortIndexLevel0(
       SortValuesDescending(SetIndex(keyed, <<"state fips", "place name">>),
                            SortCol(G), ties))

\* a state frame that is sorted by place name before it is returned
StateFrameSortedByName(data, G) ==
  LET keyed == SetIndex(WithKeyColumns(SetColumns(data, Values(G))),
                        <<"state fips", "place name">>)
  IN Reorder(keyed, ArgSort([r \in 1..Len(keyed.rows) |-> keyed.rows[r].key[2]], "stable"))

\* get_frame_for_state_vars after its download `data`
StateFrame(data, G) ==
  LET named == SetColumns(data, Values(G))
      keyed == WithKeyColumns(named)
  IN SetIndex(keyed, <<"state fips", "place name">>)

\* a tribal frame keyed like the county and state frames
TribalFrameKeyedByPair(data, G, ties) ==
  SortIndex(SetIndex(WithKeyColumns(SetColumns(data, Values(G))),
                     <<"state fips", "place name">>), ties)

\* get_frame_for_tribal_areas after its download `data`
TribalFrame(data, G, ties) ==
  LET named == SetColumns(data, Values(G))
      keyed == AddColumn(named, "place name", PlaceNamesOfIndex(named))
  IN SortIndex(SetIndex(keyed, <<"place name">>), ties)

----------------------------------------------------------------------------
(* The function bodies: every way one execution can go *)

Run(outcome, error, table, requests) ==
  [outcome |-> outcome, error |-> error, table |-> table, requests |-> requests]

Raised(error, requests) == Run("error", error, NoTable, requests)

Returned(table, requests) == Run("ok", "none", table, requests)

\* a combined request that leaves the total-population group out
AllVarsWithoutPopulation ==
  Names(LanguageVars) \o Names(PublicAssistanceVars) \o Names(PovertyLevelVars)

\* all_vars of _get_frame_for_all_county_vars
AllVars ==
  Names(LanguageVars) \o Names(PublicAssistanceVars) \o Names(PovertyLevelVars)
    \o Names(TotalPopulationVars)

\* _get_frame_for_all_county_vars: the state download, then the county
\* download, then the concatenation; a failed download raises at once
AllCountyBody ==
  { Raised("download", <<Request("state", AllVars, FALSE)>>),
    Raised("download", <<Request("state", AllVars, TRUE), Request("county", AllVars, FALSE)>>),
    Returned(Concat(Download("state", AllVars), Download("county", AllVars)),
             <<Request("state", AllVars, TRUE), Request("county", AllVars, TRUE)>>) }

\* a state run that leaves the rows without region code out of the table
StateRunSkippingRows(data, G, requests) ==
  Returned(StateFrame(Table(data.index, data.columns,
                            SelectSeq(data.rows, LAMBDA row : row.key.params # <<>>)), G),
           requests)

\* get_frame_for_state_vars after its download `data`: the IndexError of the
\* index.map of line 164 goes through
StateRun(data, G, requests) ==
  IF RowsWithoutRegionCode(data) # {} THEN Raised("IndexError", requests)
  ELSE Returned(StateFrame(data, G), requests)

StateBody(G) ==
  { Raised("download", <<Request("state", Names(G), FALSE)>>),
    StateRun(Download("state", Names(G)), G, <<Request("state", Names(G), TRUE)>>) }

TribalBody(G) ==
  { Raised("download", <<Request("tribal", Names(G), FALSE)>>),
    Returned(TribalFrame(Download("tribal", Names(G)), G, sortTies),
             <<Request("tribal", Names(G), TRUE)>>) }

----------------------------------------------------------------------------
(* pandas_cache *)

CacheKey(fn, args) == <<fn, args>>

AllCountyKey == CacheKey("_get_frame_for_all_county_vars", <<>>)

CacheKeys ==
  {AllCountyKey}
    \cup {CacheKey("get_frame_for_state_vars", <<g>>) : g \in GroupNames}
    \cup {CacheKey("get_frame_for_tribal_areas", <<g>>) : g \in GroupNames}

\* a lookup that tells the functions apart but not their arguments
LookupKeyIgnoringArguments(key) ==
  IF key[2] = <<>> THEN key ELSE CacheKey(key[1], <<"LanguageVars">>)

\* the entry a call of the decorated function is looked up under
LookupKey(key) == key

\* a decorator that forgets to keep what the body returned
StoredNothing(store, key, run) == store

\* a decorator that also keeps an (empty) entry for a run that raised
StoredAlsoFailure(store, key, run) ==
  [store EXCEPT ![key] = IF run.outcome = "ok" THEN run.table
                         ELSE Table(<<>>, <<>>, <<>>)]

\* what the decorator keeps of a run: the table of a run that returned
Stored(store, key, run) ==
  IF run.outcome = "ok" THEN [store EXCEPT ![key] = run.table] ELSE store

\* @pandas_cache: a call whose key is stored returns the stored table and does
\* not run the body; otherwise the body runs, and what it returns is stored.
\* Each element is one way the call can go, with the store it leaves.
CacheLookup(store, key, body) ==
  IF ~store[LookupKey(key)].none
  THEN {[run |-> Returned(store[LookupKey(key)], <<>>), store |-> store]}
  ELSE {[run |-> r, store |-> Stored(store, key, r)] : r \in body}

\* a call of a decorated function in the process's cache
PandasCache(key, body) == CacheLookup(cache, key, body)

----------------------------------------------------------------------------
(* The calls *)

DownloadTuples ==
  {<<"state", AllVars>>, <<"county", AllVars>>}
    \cup {<<"state", Names(Group(g))>> : g \in GroupNames}
    \cup {<<"tribal", Names(Group(g))>> : g \in GroupNames}

\* the download counts after the requests of one call
Counted(count, requests) ==
  [t \in DOMAIN count |->
     count[t] + Cardinality({i \in 1..Len(requests) :
                               requests[i].ok /\ <<requests[i].scope, requests[i].var>> = t})]

\* the number of failed downloads after the requests of one call
Failed(count, requests) ==
  count + Cardinality({i \in 1..Len(requests) : ~requests[i].ok})

\* history f after a run of the fetcher of key
FirstStored(f, key, run) ==
  IF run.outcome = "ok" /\ f[key].none THEN [f EXCEPT ![key] = run.table] ELSE f

FirstAfter(key, run) == FirstStored(first, key, run)

\* the record of a finished call: run is how the call went for its caller,
\* fetched what the cached fetcher inside it went through
Finished(fn, args, run, fetched) ==
  [fn |-> fn, args |-> args, outcome |-> run.outcome, error |-> run.error,
   table |-> run.table, requests |-> run.requests, fetched |-> fetched]

NoCall == Finished("none", <<>>, Raised("none", <<>>), Raised("none", <<>>))

\* a county run that leaves the rows without region code out of the table
CountyVarsRunSkippingRows(fetched, G, ties) ==
  IF fetched.outcome = "error" THEN fetched
  ELSE IF ~HasColumns(fetched.table, Names(G)) THEN Raised("KeyError", fetched.requests)
  ELSE Returned(CountyFrame(Table(fetched.table.index, fetched.table.columns,
                                  SelectSeq(fetched.table.rows,
                                            LAMBDA row : row.key.params # <<>>)), G, ties),
                fetched.requests)

\* get_frame_for_county_vars(G) given how its call of
\* _get_frame_for_all_county_vars went: an exception of the fetcher goes
\* through, a missing code is a KeyError of the column selection, a
\* descriptor without region code an IndexError of the index.map of line 146
CountyVarsRun(fetched, G, ties) ==
  IF fetched.outcome = "error" THEN fetched
  ELSE IF ~HasColumns(fetched.table, Names(G)) THEN Raised("KeyError", fetched.requests)
  ELSE IF RowsWithoutRegionCode(fetched.table) # {} THEN Raised("IndexError", fetched.requests)
  ELSE Returned(CountyFrame(fetched.table, G, ties), fetched.requests)

\* one call of a cached fetcher
CachedCall(fn, args, body) ==
  \E c \in PandasCache(CacheKey(fn, args), body) :
    /\ cache' = c.store
    /\ first' = FirstAfter(CacheKey(fn, args), c.run)
    /\ downloads' = Counted(downloads, c.run.requests)
    /\ failures' = Failed(failures, c.run.requests)
    /\ ret' = Finished(fn, args, c.run, c.run)

GetFrameForAllCountyVars ==
  /\ calls < MaxCalls
  /\ CachedCall("_get_frame_for_all_county_vars", <<>>, AllCountyBody)
  /\ calls' = calls + 1
  /\ UNCHANGED <<census, sortTies, displayed>>

GetFrameForCountyVars(g) ==
  /\ calls < MaxCalls
  /\ \E c \in PandasCache(AllCountyKey, AllCountyBody) :
       /\ cache' = c.store
       /\ first' = FirstAfter(AllCountyKey, c.run)
       /\ downloads' = Counted(downloads, c.run.requests)
       /\ failures' = Failed(failures, c.run.requests)
       /\ ret' = Finished("get_frame_for_county_vars", <<g>>,
                          CountyVarsRun(c.run, Group(g), sortTies), c.run)
  /\ calls' = calls + 1
  /\ UNCHANGED <<census, sortTies, displayed>>

GetFrameForStateVars(g) ==
  /\ calls < MaxCalls
  /\ CachedCall("get_frame_for_state_vars", <<g>>, StateBody(Group(g)))
  /\ calls' = calls + 1
  /\ UNCHANGED <<census, sortTies, displayed>>

GetFrameForTribalAreas(g) ==
  /\ calls < MaxCalls
  /\ CachedCall("get_frame_for_tribal_areas", <<g>>, TribalBody(Group(g)))
  /\ calls' = calls + 1
  /\ UNCHANGED <<census, sortTies, displayed>>

----------------------------------------------------------------------------
(* Indicator derivation *)

RECURSIVE GCD(_, _)
GCD(a, b) == IF b = 0 THEN a ELSE GCD(b, a % b)

\* a quotient of two counts is the pair <<numerator, denominator>> in lowest
\* terms; the two values a division by zero gives are NaN and Infinity
NaN == <<0, 0>>

Infinity == <<1, 0>>

\* a division that truncates to a whole number
FloorDiv(a, b) ==
  IF b = 0 THEN (IF a = 0 THEN NaN ELSE Infinity) ELSE <<a \div b, 1>>

\* the element-wise a / b of truediv on counts: 0/0 is NaN, a/0 is inf for
\* a > 0, nothing is raised
TrueDiv(a, b) ==
  IF b = 0 THEN (IF a = 0 THEN NaN ELSE Infinity)
  ELSE <<a \div GCD(a, b), b \div GCD(a, b)>>

\* a derivation that divides by the last column instead of the first
PercentagesOfLastColumn(frame) ==
  LET divisor_col == frame.columns[Len(frame.columns)]
      kept == SelectSeq(frame.columns, LAMBDA col : col # divisor_col)
      selected == SelectColumns(frame, kept)
      divisor == [r \in 1..Len(frame.rows) |-> frame.rows[r].vals[ColumnPos(frame, divisor_col)]]
  IN Table(frame.index, kept,
           [r \in 1..Len(selected.rows) |->
              [key |-> selected.rows[r].key,
               vals |-> [i \in 1..Len(kept) |->
                           TrueDiv(selected.rows[r].vals[i], divisor[r])]]])

\* get_percentages(frame): the columns whose name is not that of the first
\* column, each row divided by that row's first-column value
Percentages(frame) ==
  LET divisor_col == frame.columns[1]
      kept == SelectSeq(frame.columns, LAMBDA col : col # divisor_col)
      selected == SelectColumns(frame, kept)
      divisor == [r \in 1..Len(frame.rows) |-> frame.rows[r].vals[ColumnPos(frame, divisor_col)]]
  IN Table(frame.index, kept,
           [r \in 1..Len(selected.rows) |->
              [key |-> selected.rows[r].key,
               vals |-> [i \in 1..Len(kept) |->
                           TrueDiv(selected.rows[r].vals[i], divisor[r])]]])

\* frames a caller may hand to a derivation: up to three columns named as a
\* variable group names them, one or two rows of distinct keys, counts in
\* 0..MaxCell
CallerLabels == <<"total speakers", "x speakers", "y speakers">>

CallerKeys == << <<1, 11>>, <<1, 12>> >>

CallerFrames ==
  UNION { { Table(<<"state fips", "place name">>, SubSeq(CallerLabels, 1, c),
                  [r \in 1..n |-> [key |-> CallerKeys[r], vals |-> v[r]]])
              : v \in [1..n -> [1..c -> 0..MaxCell]] }
          : c \in 1..Len(CallerLabels), n \in 1..Len(CallerKeys) }

\* a call that went through no cached fetcher
NoFetch == Raised("none", <<>>)

GetPercentages ==
  /\ calls < MaxCalls
  /\ \E frame \in CallerFrames :
       ret' = Finished("get_percentages", <<frame>>, Returned(Percentages(frame), <<>>), NoFetch)
  /\ calls' = calls + 1
  /\ UNCHANGED <<census, sortTies, displayed, cache, first, downloads, failures>>

\* get_percentages of a frame a fetcher returned; an exception goes through
PercentagesRun(run) ==
  IF run.outcome = "error" THEN run
  ELSE Returned(Percentages(run.table), run.requests)

\* col.startswith("total"), over the labels of the catalog and "under 185%"
StartsWithTotal(col) ==
  col \in {"total speakers", "total public assistance population",
           "total poverty", "total population"}

RECURSIVE SumSeq(_)
SumSeq(s) == IF s = <<>> THEN 0 ELSE s[1] + SumSeq(Tail(s))

\* frame.drop(columns=cols)
DropColumns(t, cols) ==
  SelectColumns(t, SelectSeq(t.columns, LAMBDA col : col \notin SeqRange(cols)))

\* an aggregation that leaves the first of the summed columns out of the sum
PovertyAggregateWithoutFirstBucket(poverty_level) ==
  LET non_total_cols == SelectSeq(poverty_level.columns, LAMBDA col : ~StartsWithTotal(col))
      buckets == SelectColumns(poverty_level, Tail(non_total_cols))
      summed == AddColumn(poverty_level, "under 185%",
                          [r \in 1..Len(poverty_level.rows) |-> SumSeq(buckets.rows[r].vals)])
  IN DropColumns(summed, non_total_cols)

\* the body of get_poverty_level_data before the division: the columns not
\* starting with "total" are summed row by row into "under 185%" and dropped
PovertyAggregate(poverty_level) ==
  LET non_total_cols == SelectSeq(poverty_level.columns, LAMBDA col : ~StartsWithTotal(col))
      buckets == SelectColumns(poverty_level, non_total_cols)
      summed == AddColumn(poverty_level, "under 185%",
                          [r \in 1..Len(poverty_level.rows) |-> SumSeq(buckets.rows[r].vals)])
  IN DropColumns(summed, non_total_cols)

PovertyRun(run) ==
  IF run.outcome = "error" THEN run
  ELSE Returned(Percentages(PovertyAggregate(run.table)), run.requests)

\* the four tables asked for in another order
ReportPartsLanguageSecond ==
  <<"get_total_population", "get_county_language_data",
    "get_public_assistance_data", "get_poverty_level_data">>

\* the four tables of the report, in the order get_county_census_data asks
\* for them
ReportParts ==
  <<"get_total_population", "get_public_assistance_data",
    "get_poverty_level_data", "get_county_language_data">>

\* one of the four functions given how its call of
\* _get_frame_for_all_county_vars went
PartRun(fn, fetched, ties) ==
  CASE fn = "get_total_population" ->
         CountyVarsRun(fetched, TotalPopulationVars, ties)
    [] fn = "get_public_assistance_data" ->
         PercentagesRun(CountyVarsRun(fetched, PublicAssistanceVars, ties))
    [] fn = "get_poverty_level_data" ->
         PovertyRun(CountyVarsRun(fetched, PovertyLevelVars, ties))
    [] fn = "get_county_language_data" ->
         PercentagesRun(CountyVarsRun(fetched, LanguageVars, ties))

\* a frame handed out without a copy: changing it changes the stored table
AfterInPlaceOnStored(store, key, changed) == [store EXCEPT ![key] = changed]

\* the store after a caller changed in place the frame that
\* get_frame_for_county_vars returned: the frame is a copy (line 144), so
\* the stored table is not the one that changed
AfterInPlace(store, key, changed) == store

\* the store after one of the four functions ran on the fetch c:
\* get_poverty_level_data adds a column to and drops columns from the frame
\* it got, in place
PartStore(fn, c, ties) ==
  IF fn = "get_poverty_level_data"
       /\ CountyVarsRun(c.run, PovertyLevelVars, ties).outcome = "ok"
  THEN AfterInPlace(c.store, AllCountyKey,
                    PovertyAggregate(CountyFrame(c.run.table, PovertyLevelVars, ties)))
  ELSE c.store

GetDerived(fn) ==
  /\ calls < MaxCalls
  /\ \E c \in PandasCache(AllCountyKey, AllCountyBody) :
       /\ cache' = PartStore(fn, c, sortTies)
       /\ first' = FirstAfter(AllCountyKey, c.run)
       /\ downloads' = Counted(downloads, c.run.requests)
       /\ failures' = Failed(failures, c.run.requests)
       /\ ret' = Finished(fn, <<>>, PartRun(fn, c.run, sortTies), c.run)
  /\ calls' = calls + 1
  /\ UNCHANGED <<census, sortTies, displayed>>

\* the positions of the rows of t whose key is key, in row order
Matches(t, key) ==
  SelectSeq([i \in 1..Len(t.rows) |-> i], LAMBDA i : t.rows[i].key = key)

\* a join that matches on the first index level only
JoinOnStateFips(left, right) ==
  LET RowsFor(row) ==
        LET m == SelectSeq([i \in 1..Len(right.rows) |-> i],
                           LAMBDA i : right.rows[i].key[1] = row.key[1])
        IN IF m = <<>>
           THEN << [key |-> row.key,
                    vals |-> row.vals \o [i \in 1..Len(right.columns) |-> NaN]] >>
           ELSE [j \in 1..Len(m) |->
                   [key |-> row.key, vals |-> row.vals \o right.rows[m[j]].vals]]
      RECURSIVE UpTo(_)
      UpTo(n) == IF n = 0 THEN <<>> ELSE UpTo(n - 1) \o RowsFor(left.rows[n])
  IN Table(left.index, left.columns \o right.columns, UpTo(Len(left.rows)))

\* a join that keeps only the rows whose key is in both tables
JoinInner(left, right) ==
  LET RowsFor(row) ==
        LET m == Matches(right, row.key)
        IN [j \in 1..Len(m) |->
              [key |-> row.key, vals |-> row.vals \o right.rows[m[j]].vals]]
      RECURSIVE UpTo(_)
      UpTo(n) == IF n = 0 THEN <<>> ELSE UpTo(n - 1) \o RowsFor(left.rows[n])
  IN Table(left.index, left.columns \o right.columns, UpTo(Len(left.rows)))

\* left.join(right), a left join on the index: the rows of left in their
\* order, each followed by the columns of the row of right with the same key,
\* or by NaN in each of them when right has no such row (a key right holds
\* more than once repeats the row of left)
Join(left, right) ==
  LET RowsFor(row) ==
        LET m == Matches(right, row.key)
        IN IF m = <<>>
           THEN << [key |-> row.key,
                    vals |-> row.vals \o [i \in 1..Len(right.columns) |-> NaN]] >>
           ELSE [j \in 1..Len(m) |->
                   [key |-> row.key, vals |-> row.vals \o right.rows[m[j]].vals]]
      RECURSIVE UpTo(_)
      UpTo(n) == IF n = 0 THEN <<>> ELSE UpTo(n - 1) \o RowsFor(left.rows[n])
  IN Table(left.index, left.columns \o right.columns, UpTo(Len(left.rows)))

\* left.join(right) where left has been computed and the call computing
\* right has just finished: its exception goes through, and join raises
\* ValueError when the two tables share a column name
JoinRun(left, right) ==
  IF right.outcome = "error" THEN Raised(right.error, left.requests \o right.requests)
  ELSE IF SeqRange(left.table.columns) \cap SeqRange(right.table.columns) # {}
  THEN Raised("ValueError", left.requests \o right.requests)
  ELSE Returned(Join(left.table, right.table), left.requests \o right.requests)

\* get_county_census_data, started with the given store, after the first n
\* of its four calls: the table joined so far (or the exception that ended
\* the call), the store the calls left, and how the first fetch went
RECURSIVE ReportFrom(_, _)
ReportFrom(store, n) ==
  IF n = 1
  THEN { [run |-> PartRun(ReportParts[1], c.run, sortTies),
          store |-> PartStore(ReportParts[1], c, sortTies), fetched |-> c.run]
           : c \in CacheLookup(store, AllCountyKey, AllCountyBody) }
  ELSE UNION { IF a.run.outcome = "error" THEN {a}
               ELSE { [run |-> JoinRun(a.run, PartRun(ReportParts[n], c.run, sortTies)),
                       store |-> PartStore(ReportParts[n], c, sortTies), fetched |-> a.fetched]
                        : c \in CacheLookup(a.store, AllCountyKey, AllCountyBody) }
               : a \in ReportFrom(store, n - 1) }

ReportAfter(n) == ReportFrom(cache, n)

GetCountyCensusData ==
  /\ calls < MaxCalls
  /\ \E a \in ReportAfter(Len(ReportParts)) :
       /\ cache' = a.store
       /\ first' = FirstAfter(AllCountyKey, a.fetched)
       /\ downloads' = Counted(downloads, a.run.requests)
       /\ failures' = Failed(failures, a.run.requests)
       /\ ret' = Finished("get_county_census_data", <<>>, a.run, a.fetched)
  /\ calls' = calls + 1
  /\ UNCHANGED <<census, sortTies, displayed>>

\* tables a caller may join: a population table and a derived table of one
\* column each, over one or two of three keys in any order
JoinKeys == {<<1, 11>>, <<1, 12>>, <<2, 11>>}

KeyLists ==
  {<<k>> : k \in JoinKeys}
    \cup {<<p[1], p[2]>> : p \in {x \in JoinKeys \X JoinKeys : x[1] # x[2]}}

PopulationTables ==
  UNION { { Table(<<"state fips", "place name">>, <<"total population">>,
                  [r \in 1..Len(ks) |-> [key |-> ks[r], vals |-> <<v[r]>>]])
              : v \in [1..Len(ks) -> 0..MaxCell] }
          : ks \in KeyLists }

DerivedTables ==
  UNION { { Table(<<"state fips", "place name">>, <<"received public assistance">>,
                  [r \in 1..Len(ks) |-> [key |-> ks[r], vals |-> <<TrueDiv(v[r], MaxCell)>>]])
              : v \in [1..Len(ks) -> 0..MaxCell] }
          : ks \in KeyLists }

JoinFrames ==
  /\ calls < MaxCalls
  /\ \E left \in PopulationTables, right \in DerivedTables :
       ret' = Finished("join", <<left, right>>,
                       JoinRun(Returned(left, <<>>), Returned(right, <<>>)), NoFetch)
  /\ calls' = calls + 1
  /\ UNCHANGED <<census, sortTies, displayed, cache, first, downloads, failures>>

----------------------------------------------------------------------------
(* Presentation *)

\* "total" in col, over the labels of the catalog and the column names the
\* program makes up ("under 185%", "percentage of speakers")
ContainsTotal(col) ==
  col \in {"total speakers", "total public assistance population",
           "total poverty", "total population"}

\* "speaker" in col: every label of the two language groups, the column name
\* of the transposed state table, and a caller's language labels
ContainsSpeaker(col) ==
  col \in SeqRange(Values(LanguageVars)) \cup SeqRange(Values(DetailedLanguageVars))
            \cup {"percentage of speakers"} \cup SeqRange(CallerLabels)

\* v > t for quotients: NaN is greater than nothing, inf than everything finite
GreaterThan(v, t) ==
  IF v[2] = 0 THEN v[1] > 0 ELSE v[1] * t[2] > t[1] * v[2]

\* the literal 0.01 of the highlighting lambda
HighlightAbove == <<1, 100>>

\* frame.style.applymap(lambda v: ... if v > 0.01 else None, subset=speaker_cols):
\* the cells that get the background colour
Highlighted(frame, speaker_cols, threshhold) ==
  {<<r, col>> \in (1..Len(frame.rows)) \X SeqRange(speaker_cols) :
     GreaterThan(frame.rows[r].vals[ColumnPos(frame, col)], HighlightAbove)}

\* format_percentage_frame(frame, threshhold): the Styler, as the frame, the
\* highlighted cells, and the columns shown as percentages and as counts
FormatPercentageFrame(frame, threshhold) ==
  LET percentage_columns == SelectSeq(frame.columns, LAMBDA col : ~ContainsTotal(col))
      total_columns == SelectSeq(frame.columns, LAMBDA col : ContainsTotal(col))
      speaker_cols == SelectSeq(percentage_columns, LAMBDA col : ContainsSpeaker(col))
  IN [data |-> frame,
      highlighted |-> Highlighted(frame, speaker_cols, threshhold),
      percent |-> percentage_columns,
      thousands |-> total_columns]

\* the default of the threshhold parameter, and another value a caller may pass
Threshholds == {<<1, 100>>, <<1, 2>>}

\* frames a caller may hand to the formatter: a total column of counts, a
\* language column and another column of quotients, one or two rows
FormatColumns == <<"total speakers", "x speakers", "received public assistance">>

FormatFrames ==
  UNION { { Table(<<"state fips", "place name">>, FormatColumns,
                  [r \in 1..n |->
                     [key |-> CallerKeys[r],
                      vals |-> <<v[r][1], TrueDiv(v[r][2], MaxCell), TrueDiv(v[r][3], MaxCell)>>]])
              : v \in [1..n -> [1..Len(FormatColumns) -> 0..MaxCell]] }
          : n \in 1..Len(CallerKeys) }

FormatPercentageFrameCall ==
  /\ calls < MaxCalls
  /\ \E frame \in FormatFrames, threshhold \in Threshholds :
       ret' = Finished("format_percentage_frame", <<frame, threshhold>>,
                       Returned(FormatPercentageFrame(frame, threshhold), <<>>), NoFetch)
  /\ calls' = calls + 1
  /\ UNCHANGED <<census, sortTies, displayed, cache, first, downloads, failures>>

\* display(HTML("<h3 id=...>... for {name}</h3>")) and display(styler): what
\* a displayed item is
Heading(id, name) == [kind |-> "heading", id |-> id, name |-> name]

Shown(styler) == [kind |-> "table", styler |-> styler]

\* the sheet "Coverage Rate by State" of the spreadsheet, indexed by state
\* name: a rate column and a column whose name holds "Number", one row per
\* state of the reference data
WicSheet ==
  Table(<<"State">>, <<"Coverage Rate", "Number Eligible">>,
        << [key |-> <<1>>, vals |-> << <<1, 2>>, 1000>>],
           [key |-> <<2>>, vals |-> << <<1, 4>>, 2000>>] >>)

\* "Number" in col, over the columns of the sheet
ContainsNumber(col) == col \in {"Number Eligible"}

\* frame[frame.index == label] on a single index (whose entries are
\* one-tuples here): the rows whose index entry is label, in order; no row is
\* not an error
RowsAt(t, label) ==
  Table(t.index, t.columns, SelectSeq(t.rows, LAMBDA row : row.key = <<label>>))

\* get_wic_coverage_frame(state_name) when the sheet is read
WicCoverageFrame(state_name) ==
  LET frame == RowsAt(WicSheet, state_name)
  IN [data |-> frame,
      highlighted |-> {},
      percent |-> SelectSeq(frame.columns, LAMBDA col : ~ContainsNumber(col)),
      thousands |-> SelectSeq(frame.columns, LAMBDA col : ContainsNumber(col))]

\* get_wic_coverage_frame(state_name): pd.read_excel raises when the file
\* cannot be read
WicCoverageRuns(state_name) ==
  { Raised("read_excel", <<>>), Returned(WicCoverageFrame(state_name), <<>>) }

\* state names a caller may ask for: the two of the sheet and an unknown one
StateNames == {1, 2, 9}

GetWicCoverageFrame(state_name) ==
  /\ calls < MaxCalls
  /\ \E run \in WicCoverageRuns(state_name) :
       ret' = Finished("get_wic_coverage_frame", <<state_name>>, run, NoFetch)
  /\ calls' = calls + 1
  /\ UNCHANGED <<census, sortTies, displayed, cache, first, downloads, failures>>

\* how a report call ended: its outcome, the store and history it leaves, what
\* it displayed, and how its first fetch went
Ended(run, store, stored, shown, fetched) ==
  [run |-> run, store |-> store, first |-> stored, shown |-> shown, fetched |-> fetched]

\* a report call as a top-level call
Report(fn, args, ends) ==
  /\ calls < MaxCalls
  /\ \E e \in ends :
       /\ cache' = e.store
       /\ first' = e.first
       /\ downloads' = Counted(downloads, e.run.requests)
       /\ failures' = Failed(failures, e.run.requests)
       /\ displayed' = displayed \o e.shown
       /\ ret' = Finished(fn, args, e.run, e.fetched)
  /\ calls' = calls + 1
  /\ UNCHANGED <<census, sortTies>>

TribalKey(g) == CacheKey("get_frame_for_tribal_areas", <<g>>)

\* get_styled_tribal_data(tribe): the two fetches and the join come before
\* the first display; nothing after it raises
StyledTribalEnds(tribe) ==
  UNION {
    IF p.run.outcome = "error"
    THEN { Ended(p.run, p.store, FirstStored(first, TribalKey("TotalPopulationVars"), p.run),
                 <<>>, p.run) }
    ELSE { LET stored == FirstStored(FirstStored(first, TribalKey("TotalPopulationVars"), p.run),
                                     TribalKey("LanguageVars"), l.run)
               requests == p.run.requests \o l.run.requests
           IN IF l.run.outcome = "error"
              THEN Ended(Raised(l.run.error, requests), l.store, stored, <<>>, p.run)
              ELSE LET tribal_language_data == Join(p.run.table, Percentages(l.run.table))
                   IN Ended(Returned(NoTable, requests), l.store, stored,
                            << Heading("tribal", tribe),
                               Shown(FormatPercentageFrame(RowsAt(tribal_language_data, tribe),
                                                           HighlightAbove)) >>,
                            p.run)
             : l \in CacheLookup(p.store, TribalKey("LanguageVars"), TribalBody(LanguageVars)) }
    : p \in CacheLookup(cache, TribalKey("TotalPopulationVars"), TribalBody(TotalPopulationVars)) }

\* tribal areas a caller may ask for: the two of the data and an unknown one
TribeNames == {6, 7, 9}

GetStyledTribalData(tribe) ==
  Report("get_styled_tribal_data", <<tribe>>, StyledTribalEnds(tribe))

\* frame.loc[state] on a (state fips, place name) index: the rows of the
\* state, indexed by place name alone (KeyError when there is none: callers
\* test for rows)
Loc(t, state) ==
  Table(Tail(t.index), t.columns,
        [r \in 1..Len(SelectSeq(t.rows, LAMBDA row : row.key[1] = state)) |->
           [key |-> Tail(SelectSeq(t.rows, LAMBDA row : row.key[1] = state)[r].key),
            vals |-> SelectSeq(t.rows, LAMBDA row : row.key[1] = state)[r].vals]])

HasState(t, state) == \E r \in 1..Len(t.rows) : t.rows[r].key[1] = state

\* frame.T of a frame with a single index: one row per column, one column
\* per row, named by the row's index entry
Transposed(t) ==
  Table(<<"columns">>, [r \in 1..Len(t.rows) |-> t.rows[r].key[1]],
        [i \in 1..Len(t.columns) |->
           [key |-> <<t.columns[i]>>,
            vals |-> [r \in 1..Len(t.rows) |-> t.rows[r].vals[i]]]])

StateKey(g) == CacheKey("get_frame_for_state_vars", <<g>>)

\* get_styled_census_data from the county report on: the report is computed
\* after four items have been displayed
StyledCensusAfterTable(state, c, stored, state_name, shown) ==
  { LET all == Ended(a.run, a.store, FirstStored(stored, AllCountyKey, a.fetched), shown, c.run)
        requests == c.run.requests \o a.run.requests
    IN IF a.run.outcome = "error"
       THEN [all EXCEPT !.run = Raised(a.run.error, requests)]
       ELSE IF ~HasState(a.run.table, state)
       THEN [all EXCEPT !.run = Raised("KeyError", requests)]
       ELSE [all EXCEPT !.run = Returned(NoTable, requests),
                        !.shown = shown \o
                          << Heading("county-lang", state_name),
                             Shown(FormatPercentageFrame(Loc(a.run.table, state),
                                                         HighlightAbove)) >>]
    : a \in ReportFrom(c.store, Len(ReportParts)) }

\* get_styled_census_data from the first display on
StyledCensusAfterLoc(state, c, stored, state_language_data) ==
  LET state_name == state_language_data.rows[1].key[1]
      heading == << Heading("utilization", state_name) >>
  IN UNION {
       IF w.outcome = "error"
       THEN { Ended(Raised(w.error, c.run.requests), c.store, stored, heading, c.run) }
       ELSE LET shown == heading \o << Shown(w.table), Heading("state-lang", state_name) >>
                detailed_language_data == Transposed(Percentages(state_language_data))
            IN IF Len(detailed_language_data.columns) # 1
               THEN { Ended(Raised("ValueError", c.run.requests), c.store, stored, shown, c.run) }
               ELSE StyledCensusAfterTable(state, c, stored, state_name,
                      shown \o << Shown(FormatPercentageFrame(
                                          SetColumns(detailed_language_data,
                                                     <<"percentage of speakers">>),
                                          HighlightAbove)) >>)
       : w \in WicCoverageRuns(state_name) }

\* get_styled_census_data(state)
StyledCensusEnds(state) ==
  UNION {
    LET stored == FirstStored(first, StateKey("DetailedLanguageVars"), c.run)
    IN IF c.run.outcome = "error"
       THEN { Ended(c.run, c.store, stored, <<>>, c.run) }
       ELSE IF ~HasState(c.run.table, state)
       THEN { Ended(Raised("KeyError", c.run.requests), c.store, stored, <<>>, c.run) }
       ELSE StyledCensusAfterLoc(state, c, stored, Loc(c.run.table, state))
    : c \in CacheLookup(cache, StateKey("DetailedLanguageVars"), StateBody(DetailedLanguageVars)) }

\* state codes a caller may ask for: the two of the data and an unknown one
StateCodes == {1, 2, 99}

GetStyledCensusData(state) ==
  Report("get_styled_census_data", <<state>>, StyledCensusEnds(state))

----------------------------------------------------------------------------
(* Specifications *)

SortedByName(S) ==
  CHOOSE s \in Orderings(S) : \A i, j \in 1..Len(s) : i < j => s[i].name < s[j].name

\* one data set of the service: every scope listed by name
ReferenceCensus ==
  [order |-> [state |-> SortedByName(StateGeos), county |-> SortedByName(CountyGeos),
              tribal |-> SortedByName(TribalGeos)],
   base |-> [g \in AllGeos |-> g.name % (MaxBase + 1)],
   bare |-> {},
   columns |-> "requested"]

Fresh ==
  /\ cache = [k \in CacheKeys |-> NoTable]
  /\ first = [k \in CacheKeys |-> NoTable]
  /\ downloads = [t \in DownloadTuples |-> 0]
  /\ failures = 0
  /\ calls = 0
  /\ ret = NoCall
  /\ displayed = <<>>

\* a process with an empty cache, the service holding the reference data
Init ==
  /\ census = ReferenceCensus
  /\ sortTies \in TiePolicies
  /\ Fresh

Next ==
  \/ GetFrameForAllCountyVars
  \/ \E g \in GroupNames : GetFrameForCountyVars(g)
  \/ \E g \in GroupNames : GetFrameForStateVars(g)
  \/ \E g \in GroupNames : GetFrameForTribalAreas(g)

\* sequences of calls in one process
Spec == Init /\ [][Next]_vars

\* a process with an empty cache, the service holding any data in any order
InitFrame ==
  /\ census \in CensusData
  /\ sortTies \in TiePolicies
  /\ Fresh

NextFrame == calls = 0 /\ Next

\* the first call of a process, over all data the service may hold
SpecFrame == InitFrame /\ [][NextFrame]_vars

\* the reference data as a service may send it when it breaks its contract:
\* at most one descriptor without region code, columns in either order
ServiceData ==
  [order : {ReferenceCensus.order}, base : {ReferenceCensus.base},
   bare : {{}} \cup {{g} : g \in AllGeos}, columns : ColumnOrders]

InitService ==
  /\ census \in ServiceData
  /\ sortTies \in TiePolicies
  /\ Fresh

\* the first call of a process, over the shapes a response may have
SpecService == InitService /\ [][NextFrame]_vars

NextCaller == calls = 0 /\ (GetPercentages \/ JoinFrames \/ FormatPercentageFrameCall)

\* one call of a derivation on a frame of the caller's
SpecCaller == Init /\ [][NextCaller]_vars

NextReport ==
  /\ calls = 0
  /\ \/ \E fn \in SeqRange(ReportParts) : GetDerived(fn)
     \/ GetCountyCensusData

\* the first call of a process when it is one of the indicator functions,
\* over all data the service may hold
SpecReport == InitFrame /\ [][NextReport]_vars

NextStyled ==
  /\ calls = 0
  /\ \/ \E state \in StateCodes : GetStyledCensusData(state)
     \/ \E tribe \in TribeNames : GetStyledTribalData(tribe)
     \/ \E state_name \in StateNames : GetWicCoverageFrame(state_name)

\* the first call of a process when it is one of the report functions, over
\* the shapes a response may have
SpecStyled == InitService /\ [][NextStyled]_vars

NextSession ==
  /\ calls < MaxSession
  /\ \/ \E g \in GroupNames : GetFrameForCountyVars(g)
     \/ \E fn \in SeqRange(ReportParts) : GetDerived(fn)
     \/ GetCountyCensusData
     \/ \E state \in StateCodes : GetStyledCensusData(state)
     \/ \E tribe \in TribeNames : GetStyledTribalData(tribe)

\* sequences of calls of the county function, the indicator functions and
\* the report functions in one process
SpecSession == Init /\ [][NextSession]_vars

----------------------------------------------------------------------------
(* Claims *)

CountyLevelCalls == {"_get_frame_for_all_county_vars", "get_frame_for_county_vars"}

\* the cache key of the cached fetcher that the call recorded in r went through
FetcherKey(r) ==
  IF r.fn \in CountyLevelCalls THEN AllCountyKey ELSE CacheKey(r.fn, r.args)

\* C1: once a call of a cached fetcher has succeeded, every later call with
\* the same arguments returns a table equal to the first successful result
\* and performs no download.
C1_RepeatedCallServedFromCache ==
  [][\A k \in CacheKeys :
       (~first[k].none /\ calls' = calls + 1 /\ FetcherKey(ret') = k)
         => /\ ret'.fetched.outcome = "ok"
            /\ ret'.fetched.table = first[k]
            /\ ret'.fetched.requests = <<>>
            /\ downloads' = downloads
            /\ failures' = failures]_vars

\* a call of get_frame_for_state_vars answered without any download, after an
\* earlier call of it succeeded
C1_Witness ==
  /\ ret.fn = "get_frame_for_state_vars"
  /\ ret.outcome = "ok"
  /\ ret.requests = <<>>
  /\ ret.table = first[FetcherKey(ret)]
  /\ downloads[<<"state", Names(Group(ret.args[1]))>>] = 1

\* C2: a failed download inside a cached fetcher reaches the caller as a
\* failure and leaves the cache as it was, with no entry for the call; the
\* next call with the same arguments attempts the download again.
C2_FailureNotCached ==
  [][/\ (calls' = calls + 1 /\ ret'.fetched.error = "download")
        => /\ ret'.outcome = "error"
           /\ ret'.error = "download"
           /\ cache' = cache
           /\ cache'[FetcherKey(ret')].none
     /\ (calls' = calls + 1 /\ ret.fetched.error = "download"
           /\ FetcherKey(ret') = FetcherKey(ret))
        => ret'.fetched.requests # <<>>]_vars

\* the county download of _get_frame_for_all_county_vars failed after its
\* state download succeeded, nothing was kept, and the call was tried again
C2_Witness ==
  /\ ret.fn \in CountyLevelCalls
  /\ ret.error = "download"
  /\ Len(ret.requests) = 2
  /\ cache[AllCountyKey].none
  /\ downloads[<<"state", AllVars>>] = 2

\* C3: no (dataset, year, scope, variable list) tuple is downloaded again once
\* a download of it has succeeded.
C3_NoTupleDownloadedTwice ==
  \A t \in DownloadTuples : downloads[t] <= 1

\* the codes of the four groups that county-level views are built for
CountyGroupCodes ==
  SeqRange(Names(LanguageVars)) \cup SeqRange(Names(PublicAssistanceVars))
    \cup SeqRange(Names(PovertyLevelVars)) \cup SeqRange(Names(TotalPopulationVars))

\* C4: as long as no download has failed, the county-level calls together have
\* made at most one state-scope and one county-scope download, each of them
\* requesting the codes of the four county groups, and no other download.
C4_TwoDownloadsForAllCountyViews ==
  failures = 0 =>
    /\ \A t \in DownloadTuples :
         SeqRange(t[2]) = CountyGroupCodes => downloads[t] <= 1
    /\ ret.fn \in CountyLevelCalls =>
         \A i \in 1..Len(ret.requests) :
           /\ ret.requests[i].scope = <<"state", "county">>[i]
           /\ SeqRange(ret.requests[i].var) = CountyGroupCodes

\* three county-level calls for different groups were made without a failure:
\* the first downloaded, the last one was served without a download
C4_Witness ==
  /\ failures = 0
  /\ calls >= 3
  /\ ret.fn = "get_frame_for_county_vars"
  /\ ret.outcome = "ok"
  /\ ret.requests = <<>>
  /\ downloads[<<"state", AllVars>>] = 1
  /\ downloads[<<"county", AllVars>>] = 1

\* G downloaded alone for the state and the county scope and normalised as
\* get_frame_for_county_vars normalises: labels by position, the two key
\* columns, the value sort, the regrouping by state
GroupAloneFrame(G, ties) ==
  LET alone == Concat(Download("state", Names(G)), Download("county", Names(G)))
      named == Table(alone.index, Values(G), alone.rows)
      keyed == WithKeyColumns(named)
  IN SortIndexLevel0(
       SortValuesDescending(SetIndex(keyed, <<"state fips", "place name">>),
                            Values(G)[1], ties))

\* C5: the view that get_frame_for_county_vars slices from the combined result
\* equals the frame built from a download of the group's codes alone.
C5_SliceEqualsGroupAlone ==
  (ret.fn = "get_frame_for_county_vars" /\ ret.outcome = "ok")
    => ret.table = GroupAloneFrame(Group(ret.args[1]), sortTies)

\* a view of a group that is not at the head of the combined request, over
\* rows whose totals differ
C5_Witness ==
  /\ ret.fn = "get_frame_for_county_vars"
  /\ ret.outcome = "ok"
  /\ ret.args = <<"PovertyLevelVars">>
  /\ \E g, h \in CountyGeos : census.base[g] # census.base[h]

\* C6: get_frame_for_county_vars succeeds for every group of the catalog
\* whenever the combined frame is there.
C6_EveryCatalogGroupSucceeds ==
  (ret.fn = "get_frame_for_county_vars" /\ ret.fetched.outcome = "ok")
    => ret.outcome = "ok"

NormalizingCalls ==
  {"get_frame_for_county_vars", "get_frame_for_state_vars", "get_frame_for_tribal_areas"}

\* the geographies whose rows the service returns for a call
RawGeosOf(fn) ==
  CASE fn = "get_frame_for_county_vars" -> StateGeos \cup CountyGeos
    [] fn = "get_frame_for_state_vars" -> StateGeos
    [] fn = "get_frame_for_tribal_areas" -> TribalGeos

\* the geography a normalised row stands for: the last index level is its name
GeoOfRow(fn, row) ==
  CHOOSE g \in RawGeosOf(fn) : g.name = row.key[Len(row.key)]

\* C7: a normalised table has exactly the group's labels as columns, in
\* declaration order, and in every row the column labelled L holds the value
\* the service gave for the code the group maps to L.
C7_LabelsCarryTheirCodesValues ==
  (ret.fn \in NormalizingCalls /\ ret.outcome = "ok")
    => LET G == Group(ret.args[1])
       IN /\ ret.table.columns = [i \in 1..Len(G) |-> G[i].value]
          /\ \A r \in 1..Len(ret.table.rows) :
               /\ \E g \in RawGeosOf(ret.fn) : g.name = ret.table.rows[r].key[Len(ret.table.rows[r].key)]
               /\ \A i \in 1..Len(G) :
                    ret.table.rows[r].vals[i]
                      = CellValue(census.base[GeoOfRow(ret.fn, ret.table.rows[r])], G[i].name)

\* a normalised table of a group of several codes, downloaded by a fetcher
\* that relabels by position
C7_Witness ==
  /\ ret.fn = "get_frame_for_state_vars"
  /\ ret.outcome = "ok"
  /\ ret.args = <<"PovertyLevelVars">>
  /\ Len(ret.table.rows) = Cardinality(StateGeos)

\* the key the claim gives a raw row: the code of the leftmost administrative
\* component of its descriptor, and its display name
LeftmostCodeAndName(g) == <<g.params[1][2], g.name>>

\* C8: county and state normalisation keep one row per raw row, keyed by the
\* code of the descriptor's leftmost component and the display name.
C8_OneRowPerRawRowKeyedByLeftmostCode ==
  (ret.fn \in {"get_frame_for_county_vars", "get_frame_for_state_vars"} /\ ret.outcome = "ok")
    => /\ Len(ret.table.rows)
            = IF ret.fn = "get_frame_for_county_vars"
              THEN Len(census.order["state"]) + Len(census.order["county"])
              ELSE Len(census.order["state"])
       /\ ret.table.index = <<"state fips", "place name">>
       /\ \A g \in RawGeosOf(ret.fn) :
            Cardinality({r \in 1..Len(ret.table.rows) :
                           ret.table.rows[r].key = LeftmostCodeAndName(g)})
              = Cardinality({h \in RawGeosOf(ret.fn) :
                               LeftmostCodeAndName(h) = LeftmostCodeAndName(g)})

\* a county-level table, whose county rows have descriptors of two components
C8_Witness ==
  /\ ret.fn = "get_frame_for_county_vars"
  /\ ret.outcome = "ok"
  /\ \E r \in 1..Len(ret.table.rows) : ret.table.rows[r].key = <<1, 5>>
  /\ \E r \in 1..Len(ret.table.rows) : ret.table.rows[r].key = <<2, 2>>

\* C9: no two rows of a county-level or state-level table have the same
\* (region code, place name) key.
C9_KeysUnique ==
  (ret.fn \in {"get_frame_for_county_vars", "get_frame_for_state_vars"} /\ ret.outcome = "ok")
    => \A r, q \in 1..Len(ret.table.rows) :
         ret.table.rows[r].key = ret.table.rows[q].key => r = q

\* a county-level table holding the row of a state next to the rows of its
\* counties
C9_Witness ==
  /\ ret.fn = "get_frame_for_county_vars"
  /\ ret.outcome = "ok"
  /\ Cardinality({r \in 1..Len(ret.table.rows) : ret.table.rows[r].key[1] = 1}) = 3

\* C10: in a county-level table the rows of one region code are contiguous
\* and the blocks are in ascending order of region code.
C10_RegionsContiguousAscending ==
  (ret.fn = "get_frame_for_county_vars" /\ ret.outcome = "ok")
    => \A r, q \in 1..Len(ret.table.rows) :
         r < q => ret.table.rows[r].key[1] <= ret.table.rows[q].key[1]

\* a county-level table in which a row of the second region has a larger
\* total than a row of the first, from a response that lists a county of the
\* second region between the counties of the first
C10_Witness ==
  /\ ret.fn = "get_frame_for_county_vars"
  /\ ret.outcome = "ok"
  /\ census.order["county"][2].params[1][2] = 2
  /\ \E r, q \in 1..Len(ret.table.rows) :
       /\ ret.table.rows[r].key[1] = 1
       /\ ret.table.rows[q].key[1] = 2
       /\ ret.table.rows[r].vals[1] < ret.table.rows[q].vals[1]

\* the place of the row with the given key in a frame
RowOfKey(t, key) == CHOOSE r \in 1..Len(t.rows) : t.rows[r].key = key

\* the group's frame after the descending value sort and before the regrouping
ValueSorted(G, ties) ==
  LET all == Concat(Download("state", AllVars), Download("county", AllVars))
      named == SetColumns(SelectColumns(all, Names(G)), Values(G))
  IN SortValuesDescending(SetIndex(WithKeyColumns(named), <<"state fips", "place name">>),
                          Values(G)[1], ties)

\* C11: in a county-level table the rows of one region code are in
\* non-increasing order of the group's first column, and they keep the relative
\* order the descending value sort gave them.
C11_ValueOrderKeptWithinRegion ==
  (ret.fn = "get_frame_for_county_vars" /\ ret.outcome = "ok")
    => \A r, q \in 1..Len(ret.table.rows) :
         (r < q /\ ret.table.rows[r].key[1] = ret.table.rows[q].key[1])
           => /\ ret.table.rows[r].vals[1] >= ret.table.rows[q].vals[1]
              /\ RowOfKey(ValueSorted(Group(ret.args[1]), sortTies), ret.table.rows[r].key)
                   < RowOfKey(ValueSorted(Group(ret.args[1]), sortTies), ret.table.rows[q].key)

\* a county-level table whose first region holds rows of different totals and
\* rows of equal totals, the value sort having put a row of the second region
\* between them
C11_Witness ==
  /\ ret.fn = "get_frame_for_county_vars"
  /\ ret.outcome = "ok"
  /\ \E r, q \in 1..Len(ret.table.rows) :
       /\ r < q
       /\ ret.table.rows[r].key[1] = 1
       /\ ret.table.rows[q].key[1] = 1
       /\ ret.table.rows[r].vals[1] > ret.table.rows[q].vals[1]
  /\ \E r, q \in 1..Len(ret.table.rows) :
       /\ r < q
       /\ ret.table.rows[r].key[1] = 1
       /\ ret.table.rows[q].key[1] = 1
       /\ ret.table.rows[r].vals[1] = ret.table.rows[q].vals[1]
  /\ \E r, q \in 1..Len(ret.table.rows) :
       /\ ret.table.rows[r].key[1] = 1
       /\ ret.table.rows[q].key[1] = 2
       /\ ret.table.rows[r].vals[1] < ret.table.rows[q].vals[1]

\* C12 as stated: the rows of a state table are in alphabetical order of
\* place name.
C12_StateRowsSortedByName ==
  (ret.fn = "get_frame_for_state_vars" /\ ret.outcome = "ok")
    => \A r, q \in 1..Len(ret.table.rows) :
         r < q => ret.table.rows[r].key[2] <= ret.table.rows[q].key[2]

\* C12 amended: the rows of a state table are in the order of the raw
\* response; get_frame_for_state_vars sorts nothing.
C12_StateRowsInResponseOrder ==
  (ret.fn = "get_frame_for_state_vars" /\ ret.outcome = "ok")
    => /\ Len(ret.table.rows) = Len(census.order["state"])
       /\ \A r \in 1..Len(ret.table.rows) :
            ret.table.rows[r].key[2] = census.order["state"][r].name

\* a state table from a response that does not list the states alphabetically
C12_Witness ==
  /\ ret.fn = "get_frame_for_state_vars"
  /\ ret.outcome = "ok"
  /\ census.order["state"][1].name > census.order["state"][2].name
  /\ Len(ret.table.rows) = 2

\* C13 as stated: the rows of a tribal-area table are in the order of the raw
\* response.
C13_TribalRowsInResponseOrder ==
  (ret.fn = "get_frame_for_tribal_areas" /\ ret.outcome = "ok")
    => \A r \in 1..Len(ret.table.rows) :
         ret.table.rows[r].key[1] = census.order["tribal"][r].name

\* C13 amended: the rows of a tribal-area table are in ascending order of
\* place name, whatever the order of the raw response.
C13_TribalRowsSortedByName ==
  (ret.fn = "get_frame_for_tribal_areas" /\ ret.outcome = "ok")
    => /\ Len(ret.table.rows) = Len(census.order["tribal"])
       /\ \A r, q \in 1..Len(ret.table.rows) :
            r < q => ret.table.rows[r].key[1] <= ret.table.rows[q].key[1]

\* a tribal-area table from a response that does not list the areas
\* alphabetically
C13_Witness ==
  /\ ret.fn = "get_frame_for_tribal_areas"
  /\ ret.outcome = "ok"
  /\ census.order["tribal"][1].name > census.order["tribal"][2].name
  /\ Len(ret.table.rows) = 2

C15_PercentagesDivideByFirstColumn ==
  (ret.fn = "get_percentages" /\ ret.outcome = "ok")
    => LET frame == ret.args[1]
           out == ret.table
       IN /\ out.index = frame.index
          /\ Len(out.columns) = Len(frame.columns) - 1
          /\ \A i \in 1..Len(out.columns) :
               out.columns[i] = frame.columns[i + 1] /\ out.columns[i] # frame.columns[1]
          /\ Len(out.rows) = Len(frame.rows)
          /\ \A r \in 1..Len(out.rows) :
               /\ out.rows[r].key = frame.rows[r].key
               /\ Len(out.rows[r].vals) = Len(out.columns)
               /\ frame.rows[r].vals[1] # 0 =>
                    \A i \in 1..Len(out.columns) :
                      /\ out.rows[r].vals[i][2] > 0
                      /\ out.rows[r].vals[i][1] * frame.rows[r].vals[1]
                           = frame.rows[r].vals[i + 1] * out.rows[r].vals[i][2]

\* percentages of a frame of three columns and two rows: one row with a
\* quotient that is not a whole number, one row with a zero total
C15_Witness ==
  /\ ret.fn = "get_percentages"
  /\ ret.outcome = "ok"
  /\ Len(ret.args[1].columns) = 3
  /\ Len(ret.table.rows) = 2
  /\ ret.args[1].rows[1].vals = <<2, 1, 0>>
  /\ ret.table.rows[1].vals = << <<1, 2>>, <<0, 1>> >>
  /\ ret.args[1].rows[2].vals[1] = 0

\* C16: in a row whose total is zero get_percentages fills every cell with one
\* and the same undefined value, whatever the numerator.
C16_ZeroTotalGivesOneSentinel ==
  (ret.fn = "get_percentages" /\ ret.outcome = "ok")
    => \A r \in 1..Len(ret.table.rows) :
         ret.args[1].rows[r].vals[1] = 0
           => \A i \in 1..Len(ret.table.columns) : ret.table.rows[r].vals[i] = NaN

\* the variable group a derived table is computed from
GroupOfDerived(fn) ==
  CASE fn = "get_public_assistance_data" -> PublicAssistanceVars
    [] fn = "get_poverty_level_data" -> PovertyLevelVars
    [] fn = "get_county_language_data" -> LanguageVars

DerivedCalls ==
  {"get_public_assistance_data", "get_poverty_level_data", "get_county_language_data"}

\* a quotient that is a number between 0 and 1
InUnitInterval(q) == q[2] > 0 /\ 0 <= q[1] /\ q[1] <= q[2]

\* the frame a derived table came from
SourceFrame(r) == CountyFrame(r.fetched.table, GroupOfDerived(r.fn), sortTies)

\* C17 as stated: every cell of a derived table is a ratio in [0,1].
C17_EveryCellInUnitInterval ==
  (ret.fn \in DerivedCalls /\ ret.outcome = "ok")
    => \A r \in 1..Len(ret.table.rows) : \A i \in 1..Len(ret.table.columns) :
         InUnitInterval(ret.table.rows[r].vals[i])

\* C17 (amended): every cell of a derived table in a row whose group total is
\* not zero is a ratio in [0,1]; in a row whose group total is zero every cell
\* is NaN.
C17_UnitIntervalUnlessZeroTotal ==
  (ret.fn \in DerivedCalls /\ ret.outcome = "ok")
    => LET source == SourceFrame(ret)
       IN /\ Len(ret.table.columns) >= 1
          /\ \A c \in SeqRange(ret.table.columns) : ~StartsWithTotal(c)
          /\ Len(ret.table.rows) = Len(source.rows)
          /\ \A r \in 1..Len(ret.table.rows) :
               /\ ret.table.rows[r].key = source.rows[r].key
               /\ \A i \in 1..Len(ret.table.columns) :
                    IF source.rows[r].vals[1] # 0
                    THEN InUnitInterval(ret.table.rows[r].vals[i])
                    ELSE ret.table.rows[r].vals[i] = NaN

\* a language table with a row of zero total and a row holding a ratio
\* strictly between 0 and 1
C17_Witness ==
  /\ ret.fn = "get_county_language_data"
  /\ ret.outcome = "ok"
  /\ LET source == SourceFrame(ret)
     IN /\ \E r \in 1..Len(ret.table.rows) :
             source.rows[r].vals[1] = 0 /\ ret.table.rows[r].vals[1] = NaN
        /\ \E r \in 1..Len(ret.table.rows) :
             /\ source.rows[r].vals[1] # 0
             /\ 0 < ret.table.rows[r].vals[1][1]
             /\ ret.table.rows[r].vals[1][1] < ret.table.rows[r].vals[1][2]

\* the seven bucket labels of PovertyLevelVars
PovertyBuckets ==
  <<"under 0.5", "0.5 to 0.74", "0.75 to 0.99", "1.00 to 1.24",
    "1.25 to 1.49", "1.50 to 1.74", "1.75 to 1.84">>

\* a poverty table of one row: total 200, two buckets holding 20 and 30
PovertyExample ==
  Table(<<"state fips", "place name">>, <<"total poverty", "under 0.5", "0.5 to 0.74">>,
        << [key |-> <<1, 11>>, vals |-> <<200, 20, 30>>] >>)

\* C18: get_poverty_level_data sums the seven bucket columns of each row into
\* one composite column, keeps only the total and the composite, and returns
\* the single column composite / total (total 200 with buckets 20 and 30
\* gives composite 50 and ratio 1/4).
C18_PovertyCompositeOverTotal ==
  /\ PovertyAggregate(PovertyExample).columns = <<"total poverty", "under 185%">>
  /\ PovertyAggregate(PovertyExample).rows[1].vals = <<200, 50>>
  /\ Percentages(PovertyAggregate(PovertyExample)).rows[1].vals = << <<1, 4>> >>
  /\ (ret.fn = "get_poverty_level_data" /\ ret.outcome = "ok")
       => LET source == SourceFrame(ret)
              aggregate == PovertyAggregate(source)
              Composite(r) ==
                SumSeq([i \in 1..Len(PovertyBuckets) |->
                          source.rows[r].vals[ColumnPos(source, PovertyBuckets[i])]])
          IN /\ Len(source.columns) = Len(PovertyBuckets) + 1
             /\ aggregate.columns = <<"total poverty", "under 185%">>
             /\ ret.table.columns = <<"under 185%">>
             /\ Len(ret.table.rows) = Len(source.rows)
             /\ \A r \in 1..Len(source.rows) :
                  /\ aggregate.rows[r].vals = <<source.rows[r].vals[1], Composite(r)>>
                  /\ ret.table.rows[r].key = source.rows[r].key
                  /\ Len(ret.table.rows[r].vals) = 1
                  /\ source.rows[r].vals[1] # 0 =>
                       /\ ret.table.rows[r].vals[1][2] > 0
                       /\ ret.table.rows[r].vals[1][1] * source.rows[r].vals[1]
                            = Composite(r) * ret.table.rows[r].vals[1][2]

\* a poverty table with a row whose composite is a positive part of a
\* nonzero total
C18_Witness ==
  /\ ret.fn = "get_poverty_level_data"
  /\ ret.outcome = "ok"
  /\ \E r \in 1..Len(ret.table.rows) :
       /\ SourceFrame(ret).rows[r].vals[1] > 0
       /\ 0 < ret.table.rows[r].vals[1][1]
       /\ ret.table.rows[r].vals[1][1] < ret.table.rows[r].vals[1][2]

\* C19: the combined report of get_county_census_data has as many rows as the
\* total-population table, and every (state fips, place name) key of the
\* population table is the key of exactly one of its rows.
C19_ReportHasThePopulationRows ==
  (ret.fn = "get_county_census_data" /\ ret.outcome = "ok")
    => LET population == CountyFrame(ret.fetched.table, TotalPopulationVars, sortTies)
       IN /\ Len(ret.table.rows) = Len(population.rows)
          /\ \A p \in 1..Len(population.rows) :
               Cardinality({r \in 1..Len(ret.table.rows) :
                              ret.table.rows[r].key = population.rows[p].key}) = 1

\* a report over states and counties, a state holding more than one county,
\* with the columns of all four tables
C19_Witness ==
  /\ ret.fn = "get_county_census_data"
  /\ ret.outcome = "ok"
  /\ Len(ret.table.rows) = Cardinality(StateGeos) + Cardinality(CountyGeos)
  /\ \E r, s \in 1..Len(ret.table.rows) :
       r # s /\ ret.table.rows[r].key[1] = ret.table.rows[s].key[1]
  /\ ret.table.columns =
       <<"total population">> \o Tail(Values(PublicAssistanceVars))
         \o <<"under 185%">> \o Tail(Values(LanguageVars))

\* the keys of the rows of a table
KeysOf(t) == {t.rows[r].key : r \in 1..Len(t.rows)}

\* C20: the join is anchored on the population table: every row of it is
\* kept, in place, a row whose key the derived table lacks with NaN in the
\* derived table's columns, a row whose key it has with that row's cells; a
\* key only the derived table holds adds no row.
C20_JoinAnchoredOnPopulation ==
  (ret.fn = "join" /\ ret.outcome = "ok")
    => LET population == ret.args[1]
           derived == ret.args[2]
           n == Len(population.columns)
       IN /\ ret.table.columns = population.columns \o derived.columns
          /\ Len(ret.table.rows) = Len(population.rows)
          /\ KeysOf(ret.table) = KeysOf(population)
          /\ \A r \in 1..Len(population.rows) :
               /\ ret.table.rows[r].key = population.rows[r].key
               /\ SubSeq(ret.table.rows[r].vals, 1, n) = population.rows[r].vals
               /\ \A i \in 1..Len(derived.columns) :
                    IF population.rows[r].key \in KeysOf(derived)
                    THEN ret.table.rows[r].vals[n + i]
                           = derived.rows[RowOfKey(derived, population.rows[r].key)].vals[i]
                    ELSE ret.table.rows[r].vals[n + i] = NaN

\* a join where the population table has a key the derived table lacks and
\* one it has, and the derived table has a key the population table lacks
C20_Witness ==
  /\ ret.fn = "join"
  /\ ret.outcome = "ok"
  /\ KeysOf(ret.args[1]) \ KeysOf(ret.args[2]) # {}
  /\ KeysOf(ret.args[1]) \cap KeysOf(ret.args[2]) # {}
  /\ KeysOf(ret.args[2]) \ KeysOf(ret.args[1]) # {}
  /\ \E r \in 1..Len(ret.table.rows) : ret.table.rows[r].vals[2] = NaN
  /\ \E r \in 1..Len(ret.table.rows) : ret.table.rows[r].vals[2][2] > 0

\* the geographies whose rows a call of fn reads
GeosRead(fn) ==
  CASE fn = "get_frame_for_county_vars" -> StateGeos \cup CountyGeos
    [] fn = "get_frame_for_state_vars" -> StateGeos
    [] OTHER -> {}

\* C21: when the descriptor of a raw row has no region code (no (level, code)
\* pair), get_frame_for_county_vars and get_frame_for_state_vars end in an
\* error and return no table (the IndexError of the index.map when all went
\* well before it), and the state fetcher leaves nothing in the cache.
C21_MissingRegionCodeIsFatal ==
  (ret.fn \in {"get_frame_for_county_vars", "get_frame_for_state_vars"}
     /\ census.bare \cap GeosRead(ret.fn) # {})
    => /\ ret.outcome = "error"
       /\ ret.table = NoTable
       /\ (ret.fetched.outcome = "ok" /\ ret.fn = "get_frame_for_county_vars"
             /\ HasColumns(ret.fetched.table, Names(Group(ret.args[1]))))
            => ret.error = "IndexError"
       /\ (ret.fn = "get_frame_for_state_vars" /\ \A i \in 1..Len(ret.requests) : ret.requests[i].ok)
            => /\ ret.error = "IndexError"
               /\ cache[FetcherKey(ret)].none

\* a county call that raised IndexError after a fetch that succeeded
C21_Witness ==
  /\ ret.fn = "get_frame_for_county_vars"
  /\ census.bare \cap CountyGeos # {}
  /\ ret.fetched.outcome = "ok"
  /\ ret.error = "IndexError"
  /\ ret.table = NoTable

\* a state call that raised IndexError after its download succeeded
C21_WitnessState ==
  /\ ret.fn = "get_frame_for_state_vars"
  /\ census.bare \cap StateGeos # {}
  /\ Len(ret.requests) = 1 /\ ret.requests[1].ok
  /\ ret.error = "IndexError"

\* C30: format_percentage_frame(frame, threshhold) highlights exactly the
\* cells of the columns whose name contains "speaker" and not "total" whose
\* value is greater than the threshhold argument.
C30_HighlightAboveThreshholdArgument ==
  (ret.fn = "format_percentage_frame" /\ ret.outcome = "ok")
    => LET frame == ret.args[1]
           threshhold == ret.args[2]
       IN ret.table.highlighted =
            {<<r, col>> \in (1..Len(frame.rows)) \X SeqRange(frame.columns) :
               /\ ContainsSpeaker(col) /\ ~ContainsTotal(col)
               /\ GreaterThan(frame.rows[r].vals[ColumnPos(frame, col)], threshhold)}

ReportCalls == {"get_styled_census_data", "get_styled_tribal_data"}

\* C22: a report call that ends in an error has displayed nothing.
C22_FailedReportDisplayedNothing ==
  (ret.fn \in ReportCalls /\ ret.outcome = "error") => displayed = <<>>

\* the state codes and the state and tribal names the data hold
KnownStateCodes == {g.params[1][2] : g \in StateGeos}

KnownStateNames == {WicSheet.rows[r].key[1] : r \in 1..Len(WicSheet.rows)}

KnownTribes == {g.name : g \in TribalGeos}

AllRequestsOk(r) == \A i \in 1..Len(r.requests) : r.requests[i].ok

\* C23: a lookup for a geography the data do not hold raises nothing and
\* gives an empty result: get_wic_coverage_frame(unknown state name) when
\* the sheet is read, and get_styled_tribal_data(unknown tribal area) and
\* get_styled_census_data(unknown state code) when the service answers as
\* it should.
C23_UnknownGeographyIsNotAnError ==
  /\ (ret.fn = "get_wic_coverage_frame" /\ ret.args[1] \notin KnownStateNames
        /\ ret.error # "read_excel")
       => ret.outcome = "ok" /\ ret.table.data.rows = <<>>
  /\ (ret.fn = "get_styled_tribal_data" /\ ret.args[1] \notin KnownTribes
        /\ AllRequestsOk(ret) /\ census.bare = {})
       => /\ ret.outcome = "ok"
          /\ displayed[Len(displayed)].styler.data.rows = <<>>
  /\ (ret.fn = "get_styled_census_data" /\ ret.args[1] \notin KnownStateCodes
        /\ AllRequestsOk(ret) /\ census.bare = {})
       => ret.outcome = "ok"

\* the count the service sent for code in the row of the geography named name
RawCount(raw, name, code) ==
  LET r == CHOOSE q \in 1..Len(raw.rows) : raw.rows[q].key.name = name
  IN raw.rows[r].vals[ColumnPos(raw, code)]

\* the catalog: in every group the codes are pairwise distinct, the first
\* label is a total, and it is the sort column
CodesDistinctTotalFirst ==
  \A g \in GroupNames :
    /\ Cardinality(SeqRange(Names(Group(g)))) = Len(Group(g))
    /\ ContainsTotal(Group(g)[1].value)
    /\ SortCol(Group(g)) = Group(g)[1].value

\* C24: in every variable group the codes are pairwise distinct and the first
\* entry is the group's total: the counts of its code are what
\* get_percentages divides by and what get_frame_for_county_vars sorts on.
C24_FirstEntryIsGroupTotal ==
  /\ CodesDistinctTotalFirst
  /\ (ret.fn \in {"get_public_assistance_data", "get_county_language_data"}
        /\ ret.outcome = "ok")
       => LET G == GroupOfDerived(ret.fn)
              raw == ret.fetched.table
              rawRow == [r \in 1..Len(ret.table.rows) |->
                           CHOOSE q \in 1..Len(raw.rows) :
                             raw.rows[q].key.name = ret.table.rows[r].key[2]]
              position == [i \in 1..Len(G) |-> ColumnPos(raw, G[i].name)]
          IN /\ ret.table.columns = Tail(Values(G))
             /\ \A r \in 1..Len(ret.table.rows) :
                  /\ raw.rows[rawRow[r]].vals[position[1]] # 0 =>
                       \A i \in 1..Len(ret.table.columns) :
                         ret.table.rows[r].vals[i][1] * raw.rows[rawRow[r]].vals[position[1]]
                           = raw.rows[rawRow[r]].vals[position[i + 1]]
                               * ret.table.rows[r].vals[i][2]
                  /\ \A q \in 1..Len(ret.table.rows) :
                       (r < q /\ ret.table.rows[r].key[1] = ret.table.rows[q].key[1])
                         => raw.rows[rawRow[r]].vals[position[1]]
                              >= raw.rows[rawRow[q]].vals[position[1]]

\* a public assistance table holding the share 58/1057 of a populated
\* geography, and a region whose rows have different totals
C24_Witness ==
  /\ ret.fn = "get_public_assistance_data"
  /\ ret.outcome = "ok"
  /\ \E r \in 1..Len(ret.table.rows) : ret.table.rows[r].vals[1] = <<58, 1057>>
  /\ \E r, q \in 1..Len(ret.table.rows) :
       /\ r < q
       /\ ret.table.rows[r].key[1] = ret.table.rows[q].key[1]
       /\ RawCount(ret.fetched.table, ret.table.rows[r].key[2], "B19058_001E")
            > RawCount(ret.fetched.table, ret.table.rows[q].key[2], "B19058_001E")

\* what a cached fetcher computes for its own arguments from the service's data
OwnResult(fn, args) ==
  CASE fn = "get_frame_for_state_vars" ->
         StateFrame(Download("state", Names(Group(args[1]))), Group(args[1]))
    [] fn = "get_frame_for_tribal_areas" ->
         TribalFrame(Download("tribal", Names(Group(args[1]))), Group(args[1]), sortTies)
    [] fn = "_get_frame_for_all_county_vars" ->
         Concat(Download("state", AllVars), Download("county", AllVars))

CachedFetchers ==
  {"get_frame_for_state_vars", "get_frame_for_tribal_areas", "_get_frame_for_all_county_vars"}

\* C25: a cached fetcher returns the table of its own function and variable
\* group, whatever other functions and groups the cache holds entries for,
\* and each entry of the cache is the table of its own key.
C25_EntriesKeyedByFunctionAndArguments ==
  /\ (ret.fn \in CachedFetchers /\ ret.outcome = "ok")
       => ret.table = OwnResult(ret.fn, ret.args)
  /\ \A k \in CacheKeys : ~cache[k].none => cache[k] = OwnResult(k[1], k[2])

\* a state call served from the cache while the cache also holds the table of
\* the tribal fetcher for the same group
C25_Witness ==
  /\ ret.fn = "get_frame_for_state_vars"
  /\ ret.args = <<"PublicAssistanceVars">>
  /\ ret.outcome = "ok"
  /\ ret.requests = <<>>
  /\ ~cache[TribalKey("PublicAssistanceVars")].none
  /\ cache[TribalKey("PublicAssistanceVars")] # ret.table

\* C26: no call changes a table the cache holds: every entry equals the table
\* that was stored first under its key, and a step never changes an entry
\* that was there before it.
C26_CachedTablesNeverChange ==
  [][\A k \in CacheKeys :
       /\ ~cache[k].none => cache'[k] = cache[k]
       /\ ~cache'[k].none => cache'[k] = first'[k]]_vars

\* get_poverty_level_data has run on a frame it got from the cache (no
\* download in the call) and the entry it came from still holds the seven
\* bucket columns
C26_Witness ==
  /\ ret.fn = "get_poverty_level_data"
  /\ ret.outcome = "ok"
  /\ ret.requests = <<>>
  /\ HasColumns(cache[AllCountyKey], Names(PovertyLevelVars))
  /\ cache[AllCountyKey] = first[AllCountyKey]

\* the catalog: in every group the labels are pairwise distinct, the first
\* starts with "total" and no other contains "total"
LabelsDistinctOnlyFirstTotal ==
  \A g \in GroupNames :
    /\ Cardinality(SeqRange(Values(Group(g)))) = Len(Group(g))
    /\ StartsWithTotal(Group(g)[1].value)
    /\ \A i \in 2..Len(Group(g)) :
         ~ContainsTotal(Group(g)[i].value) /\ ~StartsWithTotal(Group(g)[i].value)

\* C27: in every variable group the labels are pairwise distinct, the first
\* starts with "total" and no other contains "total"; so the name tests pick
\* the first column of a group and nothing else: the county table of a
\* report has the composite in place of the seven poverty buckets, and the
\* formatter shows the total column as a count and all others as percentages.
C27_NameTestsSelectTheFirstColumn ==
  /\ LabelsDistinctOnlyFirstTotal
  /\ (ret.fn = "get_styled_census_data" /\ ret.outcome = "ok")
       => LET county == displayed[Len(displayed)].styler
          IN /\ county.data.columns =
                  <<"total population", "received public assistance", "under 185%">>
                    \o Tail(Values(LanguageVars))
             /\ county.thousands = <<"total population">>
             /\ county.percent = Tail(county.data.columns)
  /\ (ret.fn = "get_styled_tribal_data" /\ ret.outcome = "ok")
       => LET tribal == displayed[Len(displayed)].styler
          IN /\ tribal.thousands = <<Values(TotalPopulationVars)[1]>>
             /\ tribal.percent = Tail(Values(LanguageVars))

\* a census report whose county table was displayed, with a highlighted cell
C27_Witness ==
  /\ ret.fn = "get_styled_census_data"
  /\ ret.outcome = "ok"
  /\ Len(displayed) = 6
  /\ displayed[6].styler.data.rows # <<>>
  /\ displayed[6].styler.highlighted # {}

\* C28: the four tables get_county_census_data joins share no column name,
\* so the call never ends in the join's ValueError; the report's columns are
\* 'total population', 'received public assistance', 'under 185%' and the
\* twelve non-total labels of LanguageVars, in this order, and its rows are
\* in the order of the population table.
C28_ReportColumnsAndRowOrder ==
  (ret.fn = "get_county_census_data")
    => /\ ret.error # "ValueError"
       /\ ret.outcome = "ok" =>
            LET population == CountyFrame(ret.fetched.table, TotalPopulationVars, sortTies)
            IN /\ Len(ret.table.columns) = 15
               /\ SubSeq(ret.table.columns, 1, 3)
                    = <<"total population", "received public assistance", "under 185%">>
               /\ SubSeq(ret.table.columns, 4, 15) = Tail(Values(LanguageVars))
               /\ Cardinality(SeqRange(ret.table.columns)) = 15
               /\ [r \in 1..Len(ret.table.rows) |-> ret.table.rows[r].key]
                    = [r \in 1..Len(population.rows) |-> population.rows[r].key]
               /\ \A r \in 1..Len(ret.table.rows) :
                    /\ Len(ret.table.rows[r].vals) = 15
                    /\ ret.table.rows[r].vals[1] = population.rows[r].vals[1]

\* a report of fifteen columns whose first row is of a populated geography
\* and holds its shares
C28_Witness ==
  /\ ret.fn = "get_county_census_data"
  /\ ret.outcome = "ok"
  /\ ret.table.columns[15] = "other and unspecified languages speakers"
  /\ ret.table.rows[1].vals[1] > 0
  /\ ret.table.rows[1].vals[2][2] > 0
  /\ ret.table.rows[1].vals[15][2] > 0

\* in the table a call returned, every column holds the counts the service
\* has for the code its label belongs to
LabelsMatchCodes(r) ==
  LET G == Group(r.args[1])
  IN \A q \in 1..Len(r.table.rows) : \A i \in 1..Len(G) :
       r.table.rows[q].vals[i]
         = CellValue(census.base[GeoOfRow(r.fn, r.table.rows[q])], G[i].name)

\* C29: get_frame_for_county_vars gives every label the counts of its code
\* whatever the column order of the response; get_frame_for_state_vars and
\* get_frame_for_tribal_areas do so exactly when the response has its columns
\* in the order of the request.
C29_LabelsByCodeOrByPosition ==
  (ret.fn \in NormalizingCalls /\ ret.outcome = "ok")
    => /\ ret.table.columns = Values(Group(ret.args[1]))
       /\ ret.fn = "get_frame_for_county_vars" => LabelsMatchCodes(ret)
       /\ ret.fn # "get_frame_for_county_vars"
            => (LabelsMatchCodes(ret)
                  <=> ResponseColumns(Names(Group(ret.args[1]))) = Names(Group(ret.args[1])))

\* a state table built from a response with its columns in another order:
\* the column labelled "total poverty" holds the counts of another code
C29_Witness ==
  /\ ret.fn = "get_frame_for_state_vars"
  /\ ret.args = <<"PovertyLevelVars">>
  /\ ret.outcome = "ok"
  /\ census.columns = "reversed"
  /\ \E q \in 1..Len(ret.table.rows) :
       ret.table.rows[q].vals[1]
         = CellValue(census.base[GeoOfRow(ret.fn, ret.table.rows[q])], "B17026_008E")
  /\ ~LabelsMatchCodes(ret)

\* a county table built from such a response, every label with its code's counts
C29_WitnessCounty ==
  /\ ret.fn = "get_frame_for_county_vars"
  /\ ret.args = <<"PovertyLevelVars">>
  /\ ret.outcome = "ok"
  /\ census.columns = "reversed"
  /\ LabelsMatchCodes(ret)

=============================================================================
